---- MODULE Spec2Model ----
(***************************************************************************)
(* A model of pypst's table subsystem: Cell, TableLine, the argument       *)
(* renderer of utils.py, the index flattener and Table of table.py.        *)
(*                                                                         *)
(* Python values are tagged records (Value below).  A Python str is a      *)
(* sequence of tokens; every token stands for one character, or for an     *)
(* atomic run of characters that holds no newline, comma or space at its   *)
(* ends ("columns", "table.header", a label).  The separators "\n", ","    *)
(* and " " are always single tokens, so slicing and replacing on them is   *)
(* done position by position as in Python.                                 *)
(***************************************************************************)
EXTENDS Integers, Sequences, FiniteSets, TLC

\* table: the Table object the caller holds; result: the last call, the
\* exception it raised ("" for none) and the text it returned; nops: the number
\* of calls that changed the table since it was built; document: the Document
\* object the caller holds
VARIABLES table, defaults, aliased, result, nops, document

vars == <<table, defaults, aliased, result, nops, document>>

(* ------------------------------ bounds -------------------------------- *)

MaxRows == 2

MaxCols == 1

MaxLines == 2

MaxOps == 2

(* --------------------------- Python values ---------------------------- *)

None == [k |-> "none", n |-> 0, s |-> <<>>, xs |-> <<>>]

IntV(i) == [k |-> "int", n |-> i, s |-> <<>>, xs |-> <<>>]

BoolV(b) == [k |-> "bool", n |-> IF b THEN 1 ELSE 0, s |-> <<>>, xs |-> <<>>]

FloatV == [k |-> "float", n |-> 0, s |-> <<>>, xs |-> <<>>]

StrV(txt) == [k |-> "str", n |-> 0, s |-> txt, xs |-> <<>>]

ListV(elems) == [k |-> "list", n |-> 0, s |-> <<>>, xs |-> elems]

DictV(pairs) == [k |-> "dict", n |-> 0, s |-> <<>>, xs |-> pairs]

\* any other object: s is the text str() gives for it; has_render says
\* whether its class defines render(), and xs is the text render() returns
ObjV(txt, has_render, rendered) ==
    [k |-> IF has_render THEN "renderable" ELSE "object", n |-> 0, s |-> txt, xs |-> rendered]

IsNone(v) == v.k = "none"

\* isinstance(v, int): bool is a subclass of int
IsInt(v) == v.k \in {"int", "bool"}

IsStr(v) == v.k = "str"

IsList(v) == v.k = "list"

IsDict(v) == v.k = "dict"

AllStr(v) == \A i \in 1..Len(v.xs) : IsStr(v.xs[i])

AllStrItems(v) == \A i \in 1..Len(v.xs) : IsStr(v.xs[i][1]) /\ IsStr(v.xs[i][2])

(* ------------------------------- text --------------------------------- *)

Digit(d) == <<"0", "1", "2", "3", "4", "5", "6", "7", "8", "9">>[d + 1]

RECURSIVE NatStr(_)
NatStr(i) == IF i < 10 THEN <<Digit(i)>> ELSE NatStr(i \div 10) \o <<Digit(i % 10)>>

\* str(i) of an int: its decimal form
IntStr(i) == IF i < 0 THEN <<"-">> \o NatStr(-i) ELSE NatStr(i)

\* str(v), as an f-string field formats v
PyStr(v) ==
    CASE v.k = "none" -> <<"None">>
      [] v.k = "int" -> IntStr(v.n)
      [] v.k = "bool" -> IF v.n = 1 THEN <<"True">> ELSE <<"False">>
      [] v.k \in {"str", "renderable", "object"} -> v.s
      [] OTHER -> <<"<repr>">>

\* str(v).lower() of a bool
BoolLower(v) == IF v.n = 1 THEN <<"true">> ELSE <<"false">>

RECURSIVE Join(_, _)
\* sep.join(parts)
Join(parts, sep) ==
    IF Len(parts) = 0 THEN <<>>
    ELSE IF Len(parts) = 1 THEN parts[1]
    ELSE parts[1] \o sep \o Join(Tail(parts), sep)

RECURSIVE ReplaceIn(_, _, _, _, _)
\* txt[lo..hi] with every old replaced by new, by halves
ReplaceIn(txt, old, new, lo, hi) ==
    IF lo > hi THEN <<>>
    ELSE IF lo = hi THEN (IF txt[lo] = old THEN new ELSE <<txt[lo]>>)
    ELSE ReplaceIn(txt, old, new, lo, (lo + hi) \div 2)
         \o ReplaceIn(txt, old, new, (lo + hi) \div 2 + 1, hi)

\* txt.replace(old, new) for a one-character old
Replace(txt, old, new) == ReplaceIn(txt, old, new, 1, Len(txt))

\* txt[:-2]
DropLast2(txt) == IF Len(txt) <= 2 THEN <<>> ELSE SubSeq(txt, 1, Len(txt) - 2)

(* A call returns a text or raises: err is "" or the exception's name. *)

Ok(txt) == [err |-> "", text |-> txt]

Raise(e) == [err |-> e, text |-> <<>>]

\* a + b of two texts, a evaluated first: the first one that raises ends it
Cat(a, b) ==
    IF a.err # "" THEN a ELSE IF b.err # "" THEN b ELSE Ok(a.text \o b.text)

(* The same for a list of texts that is being built (an args list). *)

NoArgs == [err |-> "", args |-> <<>>]

\* args.append(f"{name}: {r}") where computing r may raise
ArgEntry(name, r) ==
    IF r.err # "" THEN [err |-> r.err, args |-> <<>>]
    ELSE [err |-> "", args |-> << <<name, ":", " ">> \o r.text >>]

CatArgs(a, b) ==
    IF a.err # "" THEN a ELSE IF b.err # "" THEN b
    ELSE [err |-> "", args |-> a.args \o b.args]

(* ------------------------------ utils.py ------------------------------ *)

\* f"({', '.join(a for a in arg)})": join raises TypeError on a non-str item
render_sequence(arg) ==
    IF \E i \in 1..Len(arg) : ~IsStr(arg[i]) THEN Raise("TypeError")
    ELSE Ok(<<"(">> \o Join([i \in 1..Len(arg) |-> arg[i].s], <<",", " ">>) \o <<")">>)

\* render_sequence(f"{k}: {v}" for k, v in arg.items())
render_mapping(arg) ==
    render_sequence([i \in 1..Len(arg) |->
        StrV(PyStr(arg[i][1]) \o <<":", " ">> \o PyStr(arg[i][2]))])

\* a render_type that tested for int before bool
render_type_int_first(arg) ==
    CASE arg.k \in {"bool", "int", "float"} -> Ok(PyStr(arg))
      [] arg.k = "str" -> Ok(arg.s)
      [] arg.k = "list" -> render_sequence(arg.xs)
      [] arg.k = "dict" -> render_mapping(arg.xs)
      [] OTHER -> Raise("ValueError")

render_type(arg) ==
    CASE arg.k = "bool" -> Ok(BoolLower(arg))
      [] arg.k \in {"int", "float"} -> Ok(PyStr(arg))
      [] arg.k = "str" -> Ok(arg.s)
      [] arg.k = "list" -> render_sequence(arg.xs)
      [] arg.k = "dict" -> render_mapping(arg.xs)
      [] OTHER -> Raise("ValueError")

\* utils.render: obj.render() of a Renderable, render_type of anything else
render(obj) == IF obj.k = "renderable" THEN Ok(obj.xs) ELSE render_type(obj)

(* ------------------------------ cell.py ------------------------------- *)

Cell(value, rowspan, colspan, fill, align, stroke) ==
    [value |-> value, rowspan |-> rowspan, colspan |-> colspan,
     fill |-> fill, align |-> align, stroke |-> stroke]

\* Cell(value) with the defaults of Cell.__init__
Cell1(value) == Cell(value, 1, 1, None, None, None)

\* the stroke entry of Cell.render: a dict goes through render_mapping, a list
\* through render_sequence, anything else is formatted as it is
CellStroke(stroke) ==
    IF IsNone(stroke) THEN NoArgs
    ELSE ArgEntry("stroke",
            IF IsDict(stroke) THEN render_mapping(stroke.xs)
            ELSE IF IsList(stroke) THEN render_sequence(stroke.xs)
            ELSE Ok(PyStr(stroke)))

\* an args list with colspan before rowspan
CellArgs_colspan_first(self) ==
    (IF self.colspan > 1 THEN << <<"colspan", ":", " ">> \o IntStr(self.colspan) >> ELSE <<>>)
    \o (IF self.rowspan > 1 THEN << <<"rowspan", ":", " ">> \o IntStr(self.rowspan) >> ELSE <<>>)
    \o (IF ~IsNone(self.fill) THEN << <<"fill", ":", " ">> \o PyStr(self.fill) >> ELSE <<>>)
    \o (IF ~IsNone(self.align) THEN << <<"align", ":", " ">> \o PyStr(self.align) >> ELSE <<>>)

\* the entries of Cell.render's args list before the stroke entry
CellArgs(self) ==
    (IF self.rowspan > 1 THEN << <<"rowspan", ":", " ">> \o IntStr(self.rowspan) >> ELSE <<>>)
    \o (IF self.colspan > 1 THEN << <<"colspan", ":", " ">> \o IntStr(self.colspan) >> ELSE <<>>)
    \o (IF ~IsNone(self.fill) THEN << <<"fill", ":", " ">> \o PyStr(self.fill) >> ELSE <<>>)
    \o (IF ~IsNone(self.align) THEN << <<"align", ":", " ">> \o PyStr(self.align) >> ELSE <<>>)

\* "[]" if self.value is None else f"[{self.value}]"
CellBody(value) ==
    IF IsNone(value) THEN <<"[", "]">> ELSE <<"[">> \o PyStr(value) \o <<"]">>

\* a render that decorated every cell
CellWrap_always(a, cell) ==
    IF a.err # "" THEN Raise(a.err)
    ELSE Ok(<<"[", "#table.cell(">> \o Join(a.args, <<",", " ">>) \o <<")">> \o cell \o <<"]">>)

\* the end of Cell.render: the decorated form if there are args
CellWrap(a, cell) ==
    IF a.err # "" THEN Raise(a.err)
    ELSE IF Len(a.args) > 0
         THEN Ok(<<"[", "#table.cell(">> \o Join(a.args, <<",", " ">>) \o <<")">> \o cell \o <<"]">>)
         ELSE Ok(cell)

\* Cell.render
CellRender(self) ==
    CellWrap(CatArgs([err |-> "", args |-> CellArgs(self)], CellStroke(self.stroke)),
             CellBody(self.value))

RECURSIVE JoinCells(_, _)
\* sep.join(cell.render() for cell in cells)
JoinCells(cells, sep) ==
    IF Len(cells) = 0 THEN Ok(<<>>)
    ELSE IF Len(cells) = 1 THEN CellRender(cells[1])
    ELSE Cat(CellRender(cells[1]), Cat(Ok(sep), JoinCells(Tail(cells), sep)))

(* ------------------------ table.py: TableLine ------------------------- *)

TableLine(pos, orientation, start, end, stroke, position) ==
    [pos |-> pos, orientation |-> orientation, start |-> start, end |-> end,
     stroke |-> stroke, position |-> position]

\* the stroke entry of TableLine.render
LineStroke(stroke) ==
    IF IsNone(stroke) THEN NoArgs
    ELSE ArgEntry("stroke", IF IsDict(stroke) THEN render_mapping(stroke.xs) ELSE Ok(PyStr(stroke)))

\* the entries of TableLine.render's args list before the stroke entry
LineArgsHead(self) ==
    (IF self.orientation = "horizontal"
     THEN << <<"y", ":", " ">> \o IntStr(self.pos) >>
     ELSE << <<"x", ":", " ">> \o IntStr(self.pos) >>)
    \o (IF ~IsNone(self.start) THEN << <<"start", ":", " ">> \o PyStr(self.start) >> ELSE <<>>)
    \o (IF ~IsNone(self.end) THEN << <<"end", ":", " ">> \o PyStr(self.end) >> ELSE <<>>)

\* the entry after it
LineArgsTail(self) ==
    IF ~IsNone(self.position) THEN << <<"position", ":", " ">> \o PyStr(self.position) >> ELSE <<>>

\* line.format(", ".join(args))
LineFormat(orientation, a) ==
    IF a.err # "" THEN Raise(a.err)
    ELSE Ok(<<IF orientation = "horizontal" THEN "table.hline(" ELSE "table.vline(">>
            \o Join(a.args, <<",", " ">>) \o <<")">>)

\* TableLine.render
TableLineRender(self) ==
    LineFormat(self.orientation,
        CatArgs([err |-> "", args |-> LineArgsHead(self)],
                CatArgs(LineStroke(self.stroke), [err |-> "", args |-> LineArgsTail(self)])))

(* -------------------------- table.py: Table --------------------------- *)

\* a FrozenList: append, insert, item assignment and removal raise once frozen
FrozenList(items, frozen) == [items |-> items, frozen |-> frozen]

\* Table(): the dataclass defaults; FrozenList(FrozenList([])) is an empty,
\* unfrozen list
NewTable ==
    [header_data |-> FrozenList(<<>>, FALSE),
     index_data |-> FrozenList(<<>>, FALSE),
     row_data |-> FrozenList(<<>>, FALSE),
     columns |-> None, rows |-> None, stroke |-> None, align |-> None,
     fill |-> None, gutter |-> None, column_gutter |-> None, row_gutter |-> None,
     lines |-> None]

\* an attribute block with stroke before rows
ArgNames_stroke_first ==
    << <<"columns", "columns">>, <<"stroke", "stroke">>, <<"rows", "rows">>,
       <<"align", "align">>, <<"fill", "fill">>, <<"gutter", "gutter">>,
       <<"column_gutter", "column-gutter">>, <<"row_gutter", "row-gutter">> >>

\* the attributes in the order _render_args reads them, with their names in
\* the output
ArgNames ==
    << <<"columns", "columns">>, <<"rows", "rows">>, <<"stroke", "stroke">>,
       <<"align", "align">>, <<"fill", "fill">>, <<"gutter", "gutter">>,
       <<"column_gutter", "column-gutter">>, <<"row_gutter", "row-gutter">> >>

\* one "if self._x is not None" block of _render_args
RenderArg(v, name) == IF IsNone(v) THEN NoArgs ELSE ArgEntry(name, render_type(v))

RECURSIVE RenderArgsFrom(_, _)
\* the args list of _render_args from the i-th block on
RenderArgsFrom(self, i) ==
    IF i > Len(ArgNames) THEN NoArgs
    ELSE CatArgs(RenderArg(self[ArgNames[i][1]], ArgNames[i][2]), RenderArgsFrom(self, i + 1))

\* ",\n".join(args) + ",\n"
ArgsText(a) ==
    IF a.err # "" THEN Raise(a.err) ELSE Ok(Join(a.args, <<",", "\n">>) \o <<",", "\n">>)

_render_args(self) == ArgsText(RenderArgsFrom(self, 1))

RECURSIVE JoinLines(_)
\* ",\n".join(line.render() for line in lines)
JoinLines(lines) ==
    IF Len(lines) = 0 THEN Ok(<<>>)
    ELSE IF Len(lines) = 1 THEN TableLineRender(lines[1])
    ELSE Cat(TableLineRender(lines[1]), Cat(Ok(<<",", "\n">>), JoinLines(Tail(lines))))

\* "not self._lines" holds for None and for the empty list
_render_lines(self) ==
    IF IsNone(self.lines) \/ Len(self.lines.xs) = 0 THEN Ok(<<>>)
    ELSE Cat(JoinLines(self.lines.xs), Ok(<<",", "\n">>))

(* _render_rows: st holds the text built so far, rows_to_skip and            *)
(* index_positions, and the exception raised if any.                         *)

\* the body of "if rows_to_skip[level] == 0" once index_cell is read: r is
\* index_cell.render()
EmitIndexCell(r, rowspan, st, lv) ==
    IF r.err # "" THEN [st EXCEPT !.err = r.err]
    ELSE [st EXCEPT !.text = @ \o r.text \o <<",", " ">>,
                    !.index_positions[lv] = @ + 1,
                    !.rows_to_skip[lv] = rowspan - 1]

\* one pass of the loop over the levels; level is self.index_data[lv], and
\* reading it past its end raises IndexError
LevelStep(level, st, lv) ==
    IF st.rows_to_skip[lv] = 0
    THEN IF st.index_positions[lv] + 1 > Len(level) THEN [st EXCEPT !.err = "IndexError"]
         ELSE EmitIndexCell(CellRender(level[st.index_positions[lv] + 1]),
                            level[st.index_positions[lv] + 1].rowspan, st, lv)
    ELSE [st EXCEPT !.rows_to_skip[lv] = @ - 1]

RECURSIVE RowLevels(_, _, _)
\* the loop over the index levels for one row, from level lv on
RowLevels(self, st, lv) ==
    IF st.err # "" \/ lv > Len(self.index_data.items) THEN st
    ELSE RowLevels(self, LevelStep(self.index_data.items[lv].items, st, lv), lv + 1)

\* table += ", ".join(cell.render() for cell in row) + ",\n"
RowStep(st, r) ==
    IF st.err # "" THEN st
    ELSE IF r.err # "" THEN [st EXCEPT !.err = r.err]
    ELSE [st EXCEPT !.text = @ \o r.text \o <<",", "\n">>]

RECURSIVE RowsFrom(_, _, _)
\* the loop over row_data from row i on
RowsFrom(self, st, i) ==
    IF st.err # "" \/ i > Len(self.row_data.items) THEN st
    ELSE RowsFrom(self,
            RowStep(RowLevels(self, st, 1),
                    JoinCells(self.row_data.items[i].items, <<",", " ">>)),
            i + 1)

\* a row text that kept the separator after the last row
RowsText_keeping(st) == IF st.err # "" THEN Raise(st.err) ELSE Ok(st.text)

\* table = table[:-2]
RowsText(st) == IF st.err # "" THEN Raise(st.err) ELSE Ok(DropLast2(st.text))

_render_rows(self) ==
    RowsText(RowsFrom(self,
        [err |-> "", text |-> <<>>,
         rows_to_skip |-> [l \in 1..Len(self.index_data.items) |-> 0],
         index_positions |-> [l \in 1..Len(self.index_data.items) |-> 0]], 1))

RECURSIVE Chain(_)
\* itertools.chain(*lists)
Chain(lists) == IF Len(lists) = 0 THEN <<>> ELSE Head(lists).items \o Chain(Tail(lists))

\* a placeholder with the two spans exchanged
index_placeholder_swapped(self) ==
    Cell(None, Len(self.index_data.items), Len(self.header_data.items), None, None, None)

\* the index-corner placeholder cell of render
index_placeholder(self) ==
    Cell(None, Len(self.header_data.items), Len(self.index_data.items), None, None, None)

\* the text render builds before it is indented
Inner(self) ==
    Cat(_render_args(self),
    Cat(_render_lines(self),
    Cat(Ok(<<"table.header">>),
    Cat(CellRender(index_placeholder(self)),
    Cat(JoinCells(Chain(self.header_data.items), <<>>),
    Cat(Ok(<<",", "\n">>),
        _render_rows(self)))))))

\* an indentation by one space
Indent_one_space(inner) ==
    IF inner.err # "" THEN inner
    ELSE Ok(<<"#table(", "\n", " ">>
            \o Replace(inner.text, "\n", <<"\n", " ">>)
            \o <<"\n", ")">>)

\* "#table(\n  " + inner.replace("\n", "\n  ") + "\n)"
Indent(inner) ==
    IF inner.err # "" THEN inner
    ELSE Ok(<<"#table(", "\n", " ", " ">>
            \o Replace(inner.text, "\n", <<"\n", " ", " ">>)
            \o <<"\n", ")">>)

\* Table.render
Render(self) == Indent(Inner(self))

(* -------------------- table.py: the index flattener -------------------- *)

(* A pandas index.  A flat index holds its labels; a MultiIndex holds, per   *)
(* level, the level's label list and its codes (0-based positions in that    *)
(* label list), one code per position of the index.                          *)

FlatIndex(labels) == [multi |-> FALSE, labels |-> labels, levels |-> <<>>, codes |-> <<>>]

MultiIndex(levels, codes) == [multi |-> TRUE, labels |-> <<>>, levels |-> levels, codes |-> codes]

\* len(index)
IndexLen(index) == IF index.multi THEN Len(index.codes[1]) ELSE Len(index.labels)

\* index.nlevels
NLevels(index) == IF index.multi THEN Len(index.levels) ELSE 1

_get_span_arg(direction) ==
    IF direction = "rows" THEN "rowspan"
    ELSE IF direction = "cols" THEN "colspan"
    ELSE "ValueError"

\* setattr(Cell(label), span_arg, span)
SpanCell(label, span_arg, span) == [Cell1(label) EXCEPT ![span_arg] = span]

RECURSIVE ParseLevelFrom(_, _, _, _, _, _)
\* the loop of _parse_level from position i on, then the final append, which
\* reads the last label of the level's label list
ParseLevelFrom(labels, codes, span_arg, i, prev_code, span) ==
    IF i > Len(codes) THEN << SpanCell(labels[Len(labels)], span_arg, span) >>
    ELSE IF codes[i] = prev_code
         THEN ParseLevelFrom(labels, codes, span_arg, i + 1, prev_code, span + 1)
         ELSE << SpanCell(labels[prev_code + 1], span_arg, span) >>
              \o ParseLevelFrom(labels, codes, span_arg, i + 1, codes[i], 1)

\* a _parse_level that counted the first position twice
_parse_level_from_one(index, level, direction) ==
    ParseLevelFrom(index.levels[level], index.codes[level], _get_span_arg(direction),
                   1, index.codes[level][1], 1)

_parse_level(index, level, direction) ==
    ParseLevelFrom(index.levels[level], index.codes[level], _get_span_arg(direction),
                   1, index.codes[level][1], 0)

_parse_multi_index(index, direction) ==
    [level \in 1..NLevels(index) |-> _parse_level(index, level, direction)]

\* a flattener that merged equal neighbours of a flat index into one cell
_parse_index_merging(index, direction) ==
    LET kept == SelectSeq([i \in 1..Len(index.labels) |-> i],
                          LAMBDA i : i = 1 \/ index.labels[i] # index.labels[i - 1])
        headers ==
            IF IndexLen(index) = 0 THEN << <<>> >>
            ELSE IF index.multi THEN _parse_multi_index(index, direction)
            ELSE << [j \in 1..Len(kept) |-> Cell1(index.labels[kept[j]])] >>
    IN  FrozenList([l \in 1..Len(headers) |-> FrozenList(headers[l], TRUE)], TRUE)

\* a flattener that froze the outer list only
_parse_index_outer_only(index, direction) ==
    LET headers ==
            IF IndexLen(index) = 0 THEN << <<>> >>
            ELSE IF index.multi THEN _parse_multi_index(index, direction)
            ELSE << [i \in 1..Len(index.labels) |-> Cell1(index.labels[i])] >>
    IN  FrozenList([l \in 1..Len(headers) |-> FrozenList(headers[l], FALSE)], TRUE)

_parse_index(index, direction) ==
    LET headers ==
            IF IndexLen(index) = 0 THEN << <<>> >>
            ELSE IF index.multi THEN _parse_multi_index(index, direction)
            ELSE << [i \in 1..Len(index.labels) |-> Cell1(index.labels[i])] >>
    IN  FrozenList([l \in 1..Len(headers) |-> FrozenList(headers[l], TRUE)], TRUE)

(* ------------------------- table.py: setters -------------------------- *)

\* what a call on a table leaves: err is "" or the exception's name, self the
\* table after it
Done(self) == [err |-> "", self |-> self]

Fail(e, self) == [err |-> e, self |-> self]

\* len(self.row_data[0]) + len(self.index_data); -1 stands for the IndexError
\* of row_data[0] on an empty row_data
ColumnCount(self) ==
    IF Len(self.row_data.items) = 0 THEN -1
    ELSE Len(self.row_data.items[1].items) + Len(self.index_data.items)

\* a count that left the header levels out
RowCount_data_only(self) == Len(self.row_data.items)

\* len(self.row_data) + len(self.header_data)
RowCount(self) == Len(self.row_data.items) + Len(self.header_data.items)

columns_setter(self, value) ==
    IF ~(IsInt(value) \/ IsStr(value) \/ IsList(value)) THEN Fail("ValueError", self)
    ELSE IF IsList(value) /\ ~AllStr(value) THEN Fail("ValueError", self)
    ELSE IF IsInt(value) /\ ColumnCount(self) = -1 THEN Fail("IndexError", self)
    ELSE IF IsInt(value) /\ ~(value.n = ColumnCount(self)) THEN Fail("ValueError", self)
    ELSE IF IsList(value) /\ ColumnCount(self) = -1 THEN Fail("IndexError", self)
    ELSE IF IsList(value) /\ ~(Len(value.xs) = ColumnCount(self)) THEN Fail("ValueError", self)
    ELSE Done([self EXCEPT !.columns = value])

rows_setter(self, value) ==
    IF ~(IsInt(value) \/ IsStr(value) \/ IsList(value)) /\ ~IsNone(value)
    THEN Fail("ValueError", self)
    ELSE IF IsList(value) /\ ~AllStr(value) THEN Fail("ValueError", self)
    ELSE IF IsInt(value) /\ ~(value.n = RowCount(self)) THEN Fail("ValueError", self)
    ELSE IF IsList(value) /\ ~(Len(value.xs) = RowCount(self)) THEN Fail("ValueError", self)
    ELSE Done([self EXCEPT !.rows = value])

stroke_setter(self, value) ==
    IF ~(IsStr(value) \/ IsList(value) \/ IsDict(value)) /\ ~IsNone(value)
    THEN Fail("ValueError", self)
    ELSE IF IsList(value) /\ ~AllStr(value) THEN Fail("ValueError", self)
    ELSE IF IsDict(value) /\ ~AllStrItems(value) THEN Fail("ValueError", self)
    ELSE Done([self EXCEPT !.stroke = value])

align_setter(self, value) ==
    IF ~(IsStr(value) \/ IsList(value)) /\ ~IsNone(value) THEN Fail("ValueError", self)
    ELSE IF IsList(value) /\ ~AllStr(value) THEN Fail("ValueError", self)
    ELSE Done([self EXCEPT !.align = value])

\* a fill setter that took a mapping as the stroke setter does
fill_setter_with_dict(self, value) ==
    IF ~(IsStr(value) \/ IsList(value) \/ IsDict(value)) /\ ~IsNone(value)
    THEN Fail("ValueError", self)
    ELSE IF IsList(value) /\ ~AllStr(value) THEN Fail("ValueError", self)
    ELSE IF IsDict(value) /\ ~AllStrItems(value) THEN Fail("ValueError", self)
    ELSE Done([self EXCEPT !.fill = value])

fill_setter(self, value) ==
    IF ~(IsStr(value) \/ IsList(value)) /\ ~IsNone(value) THEN Fail("ValueError", self)
    ELSE IF IsList(value) /\ ~AllStr(value) THEN Fail("ValueError", self)
    ELSE Done([self EXCEPT !.fill = value])

\* a gutter setter that stored the value before it checked it
gutter_setter_storing_first(self, value) ==
    IF ~(IsInt(value) \/ IsStr(value) \/ IsList(value)) /\ ~IsNone(value)
    THEN Fail("ValueError", [self EXCEPT !.gutter = value])
    ELSE IF IsList(value) /\ ~AllStr(value)
    THEN Fail("ValueError", [self EXCEPT !.gutter = value])
    ELSE Done([self EXCEPT !.gutter = value])

gutter_setter(self, value) ==
    IF ~(IsInt(value) \/ IsStr(value) \/ IsList(value)) /\ ~IsNone(value)
    THEN Fail("ValueError", self)
    ELSE IF IsList(value) /\ ~AllStr(value) THEN Fail("ValueError", self)
    ELSE Done([self EXCEPT !.gutter = value])

column_gutter_setter(self, value) ==
    IF ~(IsInt(value) \/ IsStr(value) \/ IsList(value)) /\ ~IsNone(value)
    THEN Fail("ValueError", self)
    ELSE IF IsList(value) /\ ~AllStr(value) THEN Fail("ValueError", self)
    ELSE Done([self EXCEPT !.column_gutter = value])

row_gutter_setter(self, value) ==
    IF ~(IsInt(value) \/ IsStr(value) \/ IsList(value)) /\ ~IsNone(value)
    THEN Fail("ValueError", self)
    ELSE IF IsList(value) /\ ~AllStr(value) THEN Fail("ValueError", self)
    ELSE Done([self EXCEPT !.row_gutter = value])

\* the setter the assignment "table.<attr> = value" runs
Setter(attr, self, value) ==
    CASE attr = "columns" -> columns_setter(self, value)
      [] attr = "rows" -> rows_setter(self, value)
      [] attr = "stroke" -> stroke_setter(self, value)
      [] attr = "align" -> align_setter(self, value)
      [] attr = "fill" -> fill_setter(self, value)
      [] attr = "gutter" -> gutter_setter(self, value)
      [] attr = "column_gutter" -> column_gutter_setter(self, value)
      [] attr = "row_gutter" -> row_gutter_setter(self, value)

\* an overlay list that grew at the front
_add_line_front(self, line) ==
    [self EXCEPT !.lines = ListV(<<line>> \o (IF IsNone(self.lines) THEN <<>> ELSE self.lines.xs))]

_add_line(self, line) ==
    [self EXCEPT !.lines = ListV((IF IsNone(self.lines) THEN <<>> ELSE self.lines.xs) \o <<line>>)]

add_hline(self, y, start, end, stroke, position) ==
    _add_line(self, TableLine(y, "horizontal", start, end, stroke, position))

\* an add_vline that built a horizontal line
add_vline_as_hline(self, x, start, end, stroke, position) ==
    _add_line(self, TableLine(x, "horizontal", start, end, stroke, position))

add_vline(self, x, start, end, stroke, position) ==
    _add_line(self, TableLine(x, "vertical", start, end, stroke, position))

(* ---------------------- table.py: from_dataframe ---------------------- *)

\* a DataFrame: its column index, its row index and its values, row by row
DataFrame(columns, index, data) == [columns |-> columns, index |-> index, data |-> data]

from_dataframe(df) ==
    LET row_data ==
            FrozenList([r \in 1..Len(df.data) |->
                FrozenList([c \in 1..Len(df.data[r]) |-> Cell1(df.data[r][c])], TRUE)], TRUE)
        tbl == [NewTable EXCEPT !.header_data = _parse_index(df.columns, "cols"),
                                !.index_data = _parse_index(df.index, "rows"),
                                !.row_data = row_data]
    IN  columns_setter(tbl, IntV(IndexLen(df.columns) + NLevels(df.index)))

(* ----------------------------- document.py ---------------------------- *)

\* an Import object: s is its module, xs the list of its members
Import(module, members) == [k |-> "import", n |-> 0, s |-> module, xs |-> members]

\* a Document with its body and imports lists
Document(body, imports) == [body |-> body, imports |-> imports]

\* Document()
NewDocument == Document(<<>>, <<>>)

\* a Document passed as an element
DocumentObj == [k |-> "document", n |-> 0, s |-> <<>>, xs |-> <<>>]

\* isinstance(element, (Renderable, str)): Renderable takes every object
\* whose class defines render
IsRenderableOrStr(element) == element.k \in {"renderable", "import", "document", "str"}

\* an add that kept an Import in the body
add_import_to_body(self, element) ==
    IF ~IsRenderableOrStr(element) THEN Fail("ValueError", self)
    ELSE IF element.k = "document" THEN Fail("ValueError", self)
    ELSE Done([self EXCEPT !.body = Append(@, element)])

\* Document.add
add(self, element) ==
    IF ~IsRenderableOrStr(element) THEN Fail("ValueError", self)
    ELSE IF element.k = "document" THEN Fail("ValueError", self)
    ELSE IF element.k = "import" THEN Done([self EXCEPT !.imports = Append(@, element)])
    ELSE Done([self EXCEPT !.body = Append(@, element)])

\* Document.add_import: "members or []" is [] for None and for an empty list
add_import(self, module, members) ==
    [self EXCEPT !.imports =
        Append(@, Import(module, IF IsNone(members) THEN <<>> ELSE members.xs))]

RECURSIVE StripQuotes(_)
\* module.strip('"')
StripQuotes(txt) ==
    IF Len(txt) = 0 THEN txt
    ELSE IF txt[1] = "\"" THEN StripQuotes(Tail(txt))
    ELSE IF txt[Len(txt)] = "\"" THEN StripQuotes(SubSeq(txt, 1, Len(txt) - 1))
    ELSE txt

\* Import.render
ImportRender(self) ==
    IF Len(self.xs) = 0
    THEN Ok(<<"#import", " ", "\"">> \o StripQuotes(self.s) \o <<"\"">>)
    ELSE IF Len(self.xs) > 1 /\ \E i \in 1..Len(self.xs) : self.xs[i].s = <<"*">>
         THEN Raise("ValueError")
         ELSE Ok(<<"#import", " ", "\"">> \o StripQuotes(self.s) \o <<"\"">>
                 \o <<":", " ">> \o Join([i \in 1..Len(self.xs) |-> self.xs[i].s], <<",", " ">>))

RECURSIVE JoinImports(_)
\* "\n".join([i.render() for i in self.imports])
JoinImports(imports) ==
    IF Len(imports) = 0 THEN Ok(<<>>)
    ELSE IF Len(imports) = 1 THEN ImportRender(imports[1])
    ELSE Cat(ImportRender(imports[1]), Cat(Ok(<<"\n">>), JoinImports(Tail(imports))))

RECURSIVE JoinBody(_)
\* "\n\n".join(utils.render(b) for b in self.body)
JoinBody(body) ==
    IF Len(body) = 0 THEN Ok(<<>>)
    ELSE IF Len(body) = 1 THEN render(body[1])
    ELSE Cat(render(body[1]), Cat(Ok(<<"\n", "\n">>), JoinBody(Tail(body))))

\* the return of Document.render: f"{imports}\n\n{body}" if imports else body
DocumentText(imports, body) ==
    IF imports.err # "" THEN imports
    ELSE IF body.err # "" THEN body
    ELSE IF Len(imports.text) > 0 THEN Ok(imports.text \o <<"\n", "\n">> \o body.text)
    ELSE Ok(body.text)

\* Document.render
DocumentRender(self) == DocumentText(JoinImports(self.imports), JoinBody(self.body))

(* ------------------------------ inputs -------------------------------- *)

Letters == <<"A", "B", "C", "D">>

\* a flat index of n positions: integer labels 0..n-1 (a RangeIndex) for rows,
\* letters for columns
FlatOf(n, direction) ==
    FlatIndex([i \in 1..n |-> IF direction = "rows" THEN IntV(i - 1) ELSE StrV(<<Letters[i]>>)])

\* a two-level MultiIndex of n positions whose outer codes are c0
MultiOf(n, c0) ==
    MultiIndex(<< <<StrV(<<"A">>), StrV(<<"B">>)>>, <<StrV(<<"X">>), StrV(<<"Y">>)>> >>,
               << c0, [i \in 1..n |-> (i - 1) % 2] >>)

Indexes(max, direction) ==
    {FlatOf(n, direction) : n \in 0..max}
    \cup UNION {{MultiOf(n, c0) : c0 \in [1..n -> 0..1]} : n \in {0, max}}

DataFrames ==
    {DataFrame(ci, ri,
        [r \in 1..IndexLen(ri) |-> [c \in 1..IndexLen(ci) |-> IntV((r - 1) * IndexLen(ci) + c)]])
     : ci \in Indexes(MaxCols, "cols"), ri \in Indexes(MaxRows, "rows")}

Pt == StrV(<<"1pt">>)

\* a list of n texts
StrList(n) == ListV([i \in 1..n |-> Pt])

\* the largest count a table of the model can have: the data rows or columns
\* plus two levels
MaxCount == (IF MaxRows > MaxCols THEN MaxRows ELSE MaxCols) + 2

\* values of every kind a caller can assign
BadValues ==
    {FloatV, ListV(<<Pt, IntV(1)>>), DictV(<< <<StrV(<<"top">>), IntV(1)>> >>)}

EdgeDict == DictV(<< <<StrV(<<"top">>), Pt>>, <<StrV(<<"bottom">>), StrV(<<"2pt">>)>> >>)

CountValues ==
    {None, StrV(<<"auto">>), BoolV(TRUE), EdgeDict}
    \cup {IntV(i) : i \in 0..MaxCount} \cup {StrList(i) : i \in 0..MaxCount} \cup BadValues

StyleValues ==
    {None, StrV(<<"red">>), IntV(10), StrList(2), EdgeDict} \cup BadValues

Attrs ==
    {"columns", "rows", "stroke", "align", "fill", "gutter", "column_gutter", "row_gutter"}

GridFields == {"header_data", "index_data", "row_data"}

InputValues(attr) == IF attr \in {"columns", "rows"} THEN CountValues ELSE StyleValues

\* the arguments of add_hline / add_vline: (pos, start, end, stroke, position)
LineArgs ==
    {<<1, None, None, None, None>>,
     <<2, IntV(0), IntV(1), EdgeDict, StrV(<<"end">>)>>}

\* grids a caller can build and assign
GridInputs ==
    {FrozenList(<<>>, FALSE),
     FrozenList(<< FrozenList(<<Cell1(StrV(<<"Z">>))>>, TRUE) >>, TRUE)}

(* ------------------------------ actions ------------------------------- *)

Returned(op, err, text) == [op |-> op, err |-> err, text |-> text]

\* the default values of the three grid fields: the dataclass evaluates each
\* FrozenList(FrozenList([])) once, so every Table() starts with these objects
DefaultGrids == [g \in GridFields |-> FrozenList(<<>>, FALSE)]

\* Table(): every field takes its default
TableOf(grids) ==
    [NewTable EXCEPT !.header_data = grids.header_data,
                     !.index_data = grids.index_data,
                     !.row_data = grids.row_data]

Init ==
    /\ table = NewTable
    /\ defaults = DefaultGrids
    /\ aliased = GridFields
    /\ result = Returned("Table", "", <<>>)
    /\ nops = 0
    /\ document = NewDocument

\* table = Table()
Construct ==
    /\ table' = TableOf(defaults)
    /\ aliased' = GridFields
    /\ result' = Returned("Table", "", <<>>)
    /\ UNCHANGED <<defaults, nops, document>>

\* a change inside grid g of the table is a change of the default object when
\* the field still holds it
Mutated(g) ==
    /\ defaults' = IF g \in aliased THEN [defaults EXCEPT ![g] = table'[g]] ELSE defaults
    /\ aliased' = aliased
    /\ document' = document

\* the end of from_dataframe: r is what its last statement, the assignment to
\* table.columns, leaves
Built(r) ==
    /\ table' = IF r.err = "" THEN r.self ELSE table
    /\ aliased' = IF r.err = "" THEN {} ELSE aliased
    /\ result' = Returned("from_dataframe", r.err, <<>>)
    /\ UNCHANGED <<defaults, nops, document>>

\* table = Table.from_dataframe(df): from_dataframe populates the object that
\* its first statement, cls(), has just built; when it raises, no table is
\* returned and the caller is left with an empty one
FromDataframe ==
    \E df \in DataFrames :
        /\ table = NewTable /\ aliased = GridFields /\ nops = 0
        /\ Built(from_dataframe(df))

\* the end of a setter call: r is what the setter leaves
Assigned(attr, r) ==
    /\ table' = r.self
    /\ UNCHANGED <<defaults, aliased, document>>
    /\ result' = Returned(attr, r.err, <<>>)
    /\ nops' = IF r.err = "" THEN nops + 1 ELSE nops

\* table.<attr> = value
SetAttr ==
    \E attr \in Attrs : \E value \in InputValues(attr) :
        /\ nops < MaxOps
        /\ Assigned(attr, Setter(attr, table, value))

NLines(self) == IF IsNone(self.lines) THEN 0 ELSE Len(self.lines.xs)

AddHline ==
    \E a \in LineArgs :
        /\ nops < MaxOps /\ NLines(table) < MaxLines
        /\ table' = add_hline(table, a[1], a[2], a[3], a[4], a[5])
        /\ UNCHANGED <<defaults, aliased, document>>
        /\ result' = Returned("add_hline", "", <<>>)
        /\ nops' = nops + 1

AddVline ==
    \E a \in LineArgs :
        /\ nops < MaxOps /\ NLines(table) < MaxLines
        /\ table' = add_vline(table, a[1], a[2], a[3], a[4], a[5])
        /\ UNCHANGED <<defaults, aliased, document>>
        /\ result' = Returned("add_vline", "", <<>>)
        /\ nops' = nops + 1

\* the positions (level, position) of the cells of a grid
CellsOf(grid) ==
    {<<l, i>> \in (1..Len(grid.items)) \X (1..MaxCount) : i <= Len(grid.items[l].items)}

\* table.<g>[l][i].rowspan = n, or .colspan = n: a Cell is a plain object,
\* also inside a frozen list
SetCellSpan ==
    \E g \in GridFields : \E field \in {"rowspan", "colspan"} : \E n \in 1..2 :
    \E c \in CellsOf(table[g]) :
        /\ nops < MaxOps
        /\ table[g].items[c[1]].items[c[2]][field] # n
        /\ table' = [table EXCEPT ![g].items[c[1]].items[c[2]][field] = n]
        /\ Mutated(g)
        /\ result' = Returned("setattr", "", <<>>)
        /\ nops' = nops + 1

\* table.<g>[l][i].fill = v
SetCellStyle ==
    \E g \in GridFields : \E field \in {"fill"} : \E v \in {StrV(<<"red">>)} :
    \E c \in CellsOf(table[g]) :
        /\ nops < MaxOps
        /\ table[g].items[c[1]].items[c[2]][field] # v
        /\ table' = [table EXCEPT ![g].items[c[1]].items[c[2]][field] = v]
        /\ Mutated(g)
        /\ result' = Returned("setattr", "", <<>>)
        /\ nops' = nops + 1

\* table.<g> = grid: the dataclass field is a plain attribute
AssignGrid ==
    \E g \in GridFields : \E grid \in GridInputs :
        /\ nops < MaxOps
        /\ table' = [table EXCEPT ![g] = grid]
        /\ aliased' = aliased \ {g}
        /\ UNCHANGED <<defaults, document>>
        /\ result' = Returned("assign_grid", "", <<>>)
        /\ nops' = nops + 1

\* table.<g>.append(lst): FrozenList.append raises RuntimeError once frozen
AppendGrid ==
    \E g \in GridFields :
        /\ nops < MaxOps
        /\ IF table[g].frozen
           THEN /\ UNCHANGED <<table, defaults, aliased, nops, document>>
                /\ result' = Returned("append", "RuntimeError", <<>>)
           ELSE /\ Len(table[g].items) < MaxRows
                /\ table' = [table EXCEPT ![g].items =
                                Append(@, FrozenList(<<Cell1(StrV(<<"Z">>))>>, FALSE))]
                /\ Mutated(g)
                /\ result' = Returned("append", "", <<>>)
                /\ nops' = nops + 1

\* table.<g>[l].append(cell)
AppendLevel ==
    \E g \in GridFields : \E l \in 1..MaxCount :
        /\ nops < MaxOps
        /\ l <= Len(table[g].items)
        /\ IF table[g].items[l].frozen
           THEN /\ UNCHANGED <<table, defaults, aliased, nops, document>>
                /\ result' = Returned("append", "RuntimeError", <<>>)
           ELSE /\ Len(table[g].items[l].items) < MaxCols + 1
                /\ table' = [table EXCEPT ![g].items[l].items = Append(@, Cell1(StrV(<<"Z">>)))]
                /\ Mutated(g)
                /\ result' = Returned("append", "", <<>>)
                /\ nops' = nops + 1

\* a render that used up the overlays it emitted
Rendered_consuming(r) ==
    /\ table' = [table EXCEPT !.lines = None]
    /\ result' = Returned("render", r.err, r.text)
    /\ UNCHANGED <<defaults, aliased, nops, document>>

\* the end of a render call: r is what render returns or raises
Rendered(r) ==
    /\ result' = Returned("render", r.err, r.text)
    /\ UNCHANGED <<table, defaults, aliased, nops, document>>

\* text = table.render()
DoRender == Rendered(Render(table))

Next ==
    \/ Construct
    \/ FromDataframe
    \/ SetAttr
    \/ AddHline
    \/ AddVline
    \/ SetCellSpan
    \/ SetCellStyle
    \/ AssignGrid
    \/ AppendGrid
    \/ AppendLevel
    \/ DoRender

Spec == Init /\ [][Next]_vars

\* the calls on a table that from_dataframe returned: setters, overlays,
\* in-place changes of Cell fields and render
NextDataframe ==
    \/ FromDataframe
    \/ SetAttr
    \/ AddHline
    \/ AddVline
    \/ SetCellSpan
    \/ SetCellStyle
    \/ DoRender

SpecDataframe == Init /\ [][NextDataframe]_vars

(* --------------- single calls of Cell.render and helpers --------------- *)

\* an Image: a dataclass without __str__, so str() gives its repr, and
\* render() the Typst call
ImageObj == ObjV(<<"Image(path='a.png', ...)">>, TRUE, <<"#image(", "a.png", ")">>)

\* a nested Cell: its __str__ is its render
NestedCell == ObjV(<<"[", "x", "]">>, TRUE, <<"[", "x", "]">>)

\* an object whose class has no render()
PlainObj == ObjV(<<"<object>">>, FALSE, <<>>)

MaxSpan == 3

CellInputs ==
    {Cell(value, rowspan, colspan, fill, align, stroke) :
        value \in {None, StrV(<<"value">>), IntV(7), ImageObj, NestedCell, PlainObj},
        rowspan \in 0..MaxSpan, colspan \in 0..MaxSpan,
        fill \in {None, StrV(<<"red">>)},
        align \in {None, StrV(<<"center">>)},
        stroke \in {None, StrV(<<"black">>), ListV(<<Pt, StrV(<<"2pt">>)>>), EdgeDict,
                    ListV(<<Pt, IntV(1)>>)}}

ValueInputs ==
    {None, BoolV(TRUE), BoolV(FALSE), IntV(0), IntV(10), IntV(-3), FloatV,
     StrV(<<"auto">>), StrV(<<>>), StrList(0), StrList(1), ListV(<<Pt, StrV(<<"2pt">>)>>),
     EdgeDict, DictV(<<>>), ImageObj, PlainObj}
    \cup BadValues

\* flat indexes with every choice of labels, equal neighbours included, and
\* two-level MultiIndexes
IndexInputs ==
    UNION {{FlatIndex(labels) : labels \in [1..n -> {StrV(<<"A">>), StrV(<<"B">>), IntV(0)}]}
           : n \in 0..MaxSpan}
    \cup UNION {{MultiOf(n, c0) : c0 \in [1..n -> 0..1]} : n \in 1..MaxSpan}

\* a call that is about to be made: the function and its arguments
Pending(fn, arg) ==
    [op |-> "pending", fn |-> fn, arg |-> arg, err |-> "", text |-> <<>>, value |-> None]

CallInputs ==
    {Pending("Cell.render", <<c>>) : c \in CellInputs}
    \cup {Pending("render_type", <<v>>) : v \in ValueInputs}
    \cup {Pending("render", <<v>>) : v \in ValueInputs}
    \cup {Pending("_parse_index", <<i, d>>) : i \in IndexInputs, d \in {"rows", "cols"}}

InitCalls ==
    /\ table = NewTable
    /\ defaults = DefaultGrids
    /\ aliased = GridFields
    /\ nops = 0
    /\ document = NewDocument
    /\ result \in CallInputs

\* the end of a call that returns a text or raises
ReturnedText(r) ==
    /\ result' = [result EXCEPT !.op = result.fn, !.err = r.err, !.text = r.text]
    /\ UNCHANGED <<table, defaults, aliased, nops, document>>

\* text = cell.render()
CallCellRender ==
    /\ result.op = "pending" /\ result.fn = "Cell.render"
    /\ ReturnedText(CellRender(result.arg[1]))

\* text = render_type(arg)
CallRenderType ==
    /\ result.op = "pending" /\ result.fn = "render_type"
    /\ ReturnedText(render_type(result.arg[1]))

\* text = render(obj)
CallRender ==
    /\ result.op = "pending" /\ result.fn = "render"
    /\ ReturnedText(render(result.arg[1]))

\* headers = _parse_index(index, direction)
CallParseIndex ==
    /\ result.op = "pending" /\ result.fn = "_parse_index"
    /\ result' = [result EXCEPT !.op = result.fn,
                                !.value = _parse_index(result.arg[1], result.arg[2])]
    /\ UNCHANGED <<table, defaults, aliased, nops, document>>

NextCalls ==
    \/ CallCellRender
    \/ CallRenderType
    \/ CallRender
    \/ CallParseIndex

SpecCalls == InitCalls /\ [][NextCalls]_vars

(* ------------------------- calls on a Document ------------------------ *)

MaxElems == 3

\* elements a caller can pass to add: texts, an object with render(), Import
\* objects, a Document, and objects that are neither renderable nor text
Elements ==
    {StrV(<<"Hello,">>), StrV(<<"world!">>), ImageObj,
     Import(<<"a.typ">>, <<>>), Import(<<"b.typ">>, <<StrV(<<"*">>), StrV(<<"f">>)>>),
     DocumentObj, IntV(1), PlainObj}

\* the arguments of add_import: (module, members)
ImportArgs ==
    {<<"m.typ">>, <<"\"", "q.typ", "\"">>}
    \X {None, ListV(<<>>), ListV(<<StrV(<<"f">>), StrV(<<"g">>)>>), ListV(<<StrV(<<"*">>)>>)}

\* the end of an add call: r is what add leaves
Added(r) ==
    /\ document' = r.self
    /\ result' = Returned("add", r.err, <<>>)
    /\ UNCHANGED <<table, defaults, aliased, nops>>

\* document.add(element)
DocAdd ==
    \E element \in Elements :
        /\ Len(document.body) + Len(document.imports) < MaxElems
        /\ Added(add(document, element))

\* document.add_import(module, members)
DocAddImport ==
    \E a \in ImportArgs :
        /\ Len(document.body) + Len(document.imports) < MaxElems
        /\ document' = add_import(document, a[1], a[2])
        /\ result' = Returned("add_import", "", <<>>)
        /\ UNCHANGED <<table, defaults, aliased, nops>>

\* the end of a Document.render call
DocRendered(r) ==
    /\ result' = Returned("Document.render", r.err, r.text)
    /\ UNCHANGED <<table, defaults, aliased, nops, document>>

\* text = document.render()
DocRender == DocRendered(DocumentRender(document))

NextDocument ==
    \/ DocAdd
    \/ DocAddImport
    \/ DocRender

SpecDocument == Init /\ [][NextDocument]_vars

(* ====================== properties of the model ======================= *)

RECURSIVE SetToSeq(_)
\* the numbers of S in increasing order
SetToSeq(S) ==
    IF S = {} THEN <<>>
    ELSE LET m == CHOOSE x \in S : \A y \in S : x <= y
         IN  <<m>> \o SetToSeq(S \ {m})

\* the positions that cut txt into lines: 0, every newline, and one past the end
LineCuts(txt) == <<0>> \o SetToSeq({i \in 1..Len(txt) : txt[i] = "\n"}) \o <<Len(txt) + 1>>

\* txt.split("\n")
SplitLines(txt) ==
    LET cuts == LineCuts(txt)
    IN  [k \in 1..(Len(cuts) - 1) |-> SubSeq(txt, cuts[k] + 1, cuts[k + 1] - 1)]

StartsWith(txt, prefix) ==
    Len(txt) >= Len(prefix) /\ SubSeq(txt, 1, Len(prefix)) = prefix

EndsWith(txt, suffix) ==
    Len(txt) >= Len(suffix) /\ SubSeq(txt, Len(txt) - Len(suffix) + 1, Len(txt)) = suffix

\* render returned a text in this state; the table is as render read it
RenderedOk == result.op = "render" /\ result.err = ""

\* the lines of the text render returned
OutLines == SplitLines(result.text)

\* the line number of the table.header line
HeaderLine == CHOOSE k \in 1..Len(OutLines) : StartsWith(OutLines[k], <<" ", " ", "table.header">>)

DataRows == Len(table.row_data.items)

CountRule(v, count, err) ==
    /\ v.k = "int" => (err = "" <=> v.n = count) /\ err \in {"", "ValueError"}
    /\ (IsList(v) /\ AllStr(v)) => (err = "" <=> Len(v.xs) = count) /\ err \in {"", "ValueError"}

\* C2: table.columns = n, or = a list of n strings, is accepted iff n is the
\* number of cells of the first data row plus the number of index levels, and
\* is rejected with ValueError otherwise.
C2_ColumnsCount ==
    [][\A v \in CountValues :
        (result'.op = "columns" /\ nops < MaxOps /\ Assigned("columns", columns_setter(table, v))) =>
            CountRule(v,
                (IF DataRows = 0 THEN 0 ELSE Len(table.row_data.items[1].items))
                    + Len(table.index_data.items),
                result'.err)]_vars

\* C3: table.rows = n, or = a list of n strings, is accepted iff n is the
\* number of data rows plus the number of header levels, and is rejected with
\* ValueError otherwise; a string or None is accepted whatever the grids are;
\* an accepted value is stored.
C3_RowsCount ==
    [][\A v \in CountValues :
        (result'.op = "rows" /\ nops < MaxOps /\ Assigned("rows", rows_setter(table, v))) =>
            /\ CountRule(v, DataRows + Len(table.header_data.items), result'.err)
            /\ (IsStr(v) \/ IsNone(v)) => result'.err = ""
            /\ result'.err = "" => table'.rows = v]_vars

C3_Witness ==
    /\ result.op = "rows" /\ result.err = ""
    /\ table.rows.k = "int" /\ DataRows > 1 /\ Len(table.header_data.items) > 1

\* C4: once the table holds data, assigning a new grid to header_data,
\* index_data or row_data is rejected or changes nothing.
C4_GridsNotReplaced ==
    [][(DataRows > 0 /\ result'.op = "assign_grid") =>
        /\ table'.header_data = table.header_data
        /\ table'.index_data = table.index_data
        /\ table'.row_data = table.row_data]_vars

\* a grid is a frozen list of frozen lists
GridFrozen(grid) == grid.frozen /\ \A l \in 1..Len(grid.items) : grid.items[l].frozen

AllFrozen(self) == \A g \in GridFields : GridFrozen(self[g])

\* the lengths of the lists of a grid
GridShape(grid) == [l \in 1..Len(grid.items) |-> Len(grid.items[l].items)]

\* C5: the three grids of a table that from_dataframe returns are frozen lists
\* of frozen lists; an append to a frozen grid or level raises and changes
\* nothing, and as long as the grids stay in place they stay frozen and keep
\* their lengths.
C5_GridsFrozen ==
    [][/\ (result'.op = "from_dataframe" /\ result'.err = "") => AllFrozen(table')
       /\ (AllFrozen(table) /\ result'.op = "append") =>
            (result'.err = "RuntimeError" /\ table' = table)
       /\ (AllFrozen(table) /\ result'.op \notin {"Table", "from_dataframe", "assign_grid"}) =>
            (AllFrozen(table') /\ \A g \in GridFields : GridShape(table'[g]) = GridShape(table[g]))
      ]_vars

C5_Witness ==
    /\ result.op = "append" /\ result.err = "RuntimeError"
    /\ AllFrozen(table) /\ DataRows > 1

RowLine(i) == OutLines[Len(OutLines) - 1 - DataRows + i]

AttrOrder ==
    << <<"columns", "columns">>, <<"rows", "rows">>, <<"stroke", "stroke">>,
       <<"align", "align">>, <<"fill", "fill">>, <<"gutter", "gutter">>,
       <<"column_gutter", "column-gutter">>, <<"row_gutter", "row-gutter">> >>

\* the attributes that are set, in that order
SetAttrs == SelectSeq(AttrOrder, LAMBDA a : ~IsNone(table[a[1]]))

Overlays(self) == IF IsNone(self.lines) THEN <<>> ELSE self.lines.xs

\* what C9 says of the lines L of a rendered text whose table.header line is
\* line h, for a table with the overlays ls
OverlayLines(L, h, ls) ==
    /\ h > Len(ls) + 1
    /\ \A i \in 1..Len(ls) :
        L[h - Len(ls) - 1 + i] = <<" ", " ">> \o TableLineRender(ls[i]).text \o <<",">>
    /\ \A k \in 1..Len(L) :
        (Len(L[k]) >= 3 /\ \E i \in 1..Len(AttrOrder) : L[k][3] = AttrOrder[i][2])
            => k < h - Len(ls)

\* C9: add_hline and add_vline put their overlay after those already added,
\* and render() emits one line per overlay in that order, directly before the
\* table.header line and after every attribute line.
C9_OverlayOrder ==
    [][/\ result'.op \in {"add_hline", "add_vline"} =>
            \E a \in LineArgs :
                Overlays(table') = Overlays(table) \o
                    <<TableLine(a[1],
                                IF result'.op = "add_hline" THEN "horizontal" ELSE "vertical",
                                a[2], a[3], a[4], a[5])>>
       /\ (result'.op = "render" /\ result'.err = "") =>
            LET L == SplitLines(result'.text)
                h == CHOOSE k \in 1..Len(L) : StartsWith(L[k], <<" ", " ", "table.header">>)
            IN  OverlayLines(L, h, Overlays(table'))
      ]_vars

C9_Witness ==
    /\ RenderedOk
    /\ NLines(table) = 2
    /\ table.lines.xs[1].orientation = "horizontal"
    /\ table.lines.xs[2].orientation = "vertical"
    /\ table.lines.xs[1].pos # table.lines.xs[2].pos

\* C10: render() of a table reached from from_dataframe by accepted setter
\* calls, add_hline / add_vline and in-place changes of Cell fields never
\* raises.
C10_RenderNeverRaises == result.op = "render" => result.err = ""

\* the Cells a table holds in its three grids
TableCells(self) ==
    UNION {{self[g].items[c[1]].items[c[2]] : c \in CellsOf(self[g])} : g \in GridFields}

SpanOk(cell) == cell.rowspan >= 1 /\ cell.colspan >= 1

\* C11: every Cell has rowspan >= 1 and colspan >= 1: the cells of the grids,
\* those the flattener built among them, and the index-corner placeholder
\* that render() builds from the numbers of header and index levels.
C11_SpansPositive ==
    /\ \A cell \in TableCells(table) : SpanOk(cell)
    /\ result.op = "render" => SpanOk(index_placeholder(table))

\* the bracket form "[...]" without a table.cell call
IsPlainForm(txt) ==
    Len(txt) >= 2 /\ txt[1] = "[" /\ txt[Len(txt)] = "]" /\ txt[2] # "#table.cell("

\* the form "[#table.cell(...)[...]]"
IsDecoratedForm(txt) ==
    /\ Len(txt) >= 6
    /\ txt[1] = "[" /\ txt[2] = "#table.cell("
    /\ txt[Len(txt) - 1] = "]" /\ txt[Len(txt)] = "]"
    /\ \E i \in 3..(Len(txt) - 3) : txt[i] = ")" /\ txt[i + 1] = "["

\* the cell a finished Cell.render call was made on
CellRendered == result.op = "Cell.render"

NoStyle(cell) == IsNone(cell.fill) /\ IsNone(cell.align) /\ IsNone(cell.stroke)

CellArgOrder == <<"rowspan", "colspan", "fill", "align", "stroke">>

\* whether C13 expects the argument: a span when it is greater than 1, a
\* style when it is set
ArgExpected(cell, name) ==
    IF name \in {"rowspan", "colspan"} THEN cell[name] > 1 ELSE ~IsNone(cell[name])

\* the argument names of a rendered cell, in the order of the text: the
\* tokens of CellArgOrder that a ":" follows
ArgNamesIn(txt) ==
    SelectSeq([i \in 1..(Len(txt) - 1) |->
                  IF txt[i + 1] = ":" /\ \E j \in 1..Len(CellArgOrder) : txt[i] = CellArgOrder[j]
                  THEN txt[i] ELSE ""],
              LAMBDA t : t # "")

\* the text that follows the i-th token of txt up to the next "," or ")"
ArgValueAt(txt, i) ==
    SubSeq(txt, i + 3,
           (CHOOSE j \in (i + 3)..Len(txt) :
                txt[j] \in {",", ")"} /\ \A m \in (i + 3)..(j - 1) : txt[m] \notin {",", ")"}) - 1)

\* C13: the decorated form lists its arguments in the order rowspan, colspan,
\* fill, align, stroke; a span is listed, with its number, only when it is
\* greater than 1, and fill, align, stroke only when set.
C13_CellArgOrder ==
    (CellRendered /\ result.err = "") =>
        /\ ArgNamesIn(result.text) =
                SelectSeq(CellArgOrder, LAMBDA name : ArgExpected(result.arg[1], name))
        /\ \A i \in 1..(Len(result.text) - 1) :
            (result.text[i] \in {"rowspan", "colspan"} /\ result.text[i + 1] = ":") =>
                ArgValueAt(result.text, i) = IntStr(result.arg[1][result.text[i]])

C13_Witness ==
    /\ CellRendered /\ result.err = ""
    /\ result.arg[1].rowspan = 3 /\ result.arg[1].colspan = 2
    /\ ~IsNone(result.arg[1].fill) /\ ~IsNone(result.arg[1].align)
    /\ IsDict(result.arg[1].stroke)
    /\ ArgNamesIn(result.text) = CellArgOrder

\* a finished render_type call
TypeRendered == result.op = "render_type"

\* the texts of a list of text values
Texts(xs) == [i \in 1..Len(xs) |-> xs[i].s]

\* the "key: value" texts of a mapping of text to text
PairTexts(xs) == [i \in 1..Len(xs) |-> xs[i][1].s \o <<":", " ">> \o xs[i][2].s]

Parenthesized(parts) == <<"(">> \o Join(parts, <<",", " ">>) \o <<")">>

\* C14: render_type returns a text as it is, a sequence of texts as
\* "(" + the elements joined by ", " + ")" in their order, a mapping of text
\* to text as "(" + the "key: value" pairs joined by ", " + ")" in insertion
\* order, a boolean as "true" or "false", and an integer in decimal.
C14_RenderType ==
    TypeRendered =>
        /\ IsStr(result.arg[1]) => (result.err = "" /\ result.text = result.arg[1].s)
        /\ (IsList(result.arg[1]) /\ AllStr(result.arg[1])) =>
            (result.err = "" /\ result.text = Parenthesized(Texts(result.arg[1].xs)))
        /\ (IsDict(result.arg[1]) /\ AllStrItems(result.arg[1])) =>
            (result.err = "" /\ result.text = Parenthesized(PairTexts(result.arg[1].xs)))
        /\ result.arg[1].k = "bool" =>
            (result.err = "" /\ result.text = <<IF result.arg[1].n = 1 THEN "true" ELSE "false">>)
        /\ result.arg[1].k = "int" =>
            (result.err = "" /\ result.text = IntStr(result.arg[1].n))

C14_Witness ==
    /\ TypeRendered /\ result.arg[1] = EdgeDict
    /\ result.text = <<"(", "top", ":", " ", "1pt", ",", " ", "bottom", ":", " ", "2pt", ")">>

\* the values C15 lets render_type render
TypeOk(v) ==
    \/ v.k \in {"int", "float", "bool", "str"}
    \/ IsList(v) /\ AllStr(v)
    \/ IsDict(v) /\ AllStrItems(v)

\* C15: render_type raises ValueError for every value that is not an integer,
\* a float, a boolean, a text, a sequence of texts or a mapping of text to
\* text: it neither renders such a value nor raises another error.
C15_RejectsOthers ==
    (TypeRendered /\ ~TypeOk(result.arg[1])) => result.err = "ValueError"

\* C16: a mapping is accepted by the stroke setter alone, and only when all
\* its keys and values are texts; every other setter rejects a mapping with
\* ValueError, and every setter rejects a list with a non-text element with
\* ValueError; a rejected assignment changes nothing.
C16_MappingOnlyForStroke ==
    [][\A attr \in Attrs : \A v \in InputValues(attr) :
        (result'.op = attr /\ nops < MaxOps /\ Assigned(attr, Setter(attr, table, v))) =>
            /\ (IsDict(v) /\ attr # "stroke") => (result'.err = "ValueError" /\ table' = table)
            /\ (IsDict(v) /\ attr = "stroke") =>
                IF AllStrItems(v)
                THEN result'.err = "" /\ table'.stroke = v
                ELSE result'.err = "ValueError" /\ table' = table
            /\ (IsList(v) /\ ~AllStr(v)) => (result'.err = "ValueError" /\ table' = table)
      ]_vars

C16_Witness ==
    /\ result.op = "stroke" /\ result.err = ""
    /\ table.stroke = EdgeDict /\ DataRows > 0

\* a grid of one level without cells
IsEmptyLevel(grid) == Len(grid.items) = 1 /\ Len(grid.items[1].items) = 0

\* C17: from_dataframe returns a Table for every frame, one without rows or
\* without columns included; its columns attribute is the number of data
\* columns plus the number of index levels, and an empty index is flattened
\* to a single level without cells.
C17_FromDataframeSucceeds ==
    [][\A df \in DataFrames :
        (result'.op = "from_dataframe" /\ table = NewTable /\ aliased = GridFields /\ nops = 0
            /\ Built(from_dataframe(df))) =>
            /\ result'.err = ""
            /\ table'.columns = IntV(IndexLen(df.columns) + NLevels(df.index))
            /\ IndexLen(df.index) = 0 => IsEmptyLevel(table'.index_data)
            /\ IndexLen(df.columns) = 0 => IsEmptyLevel(table'.header_data)
      ]_vars

\* a finished _parse_index call
IndexParsed == result.op = "_parse_index"

\* C18: a flat index is flattened to one level that holds one Cell per
\* position, in order, each with its label and with rowspan = colspan = 1;
\* equal neighbours stay separate cells.
C18_FlatIndexCells ==
    (IndexParsed /\ ~result.arg[1].multi) =>
        /\ Len(result.value.items) = 1
        /\ Len(result.value.items[1].items) = Len(result.arg[1].labels)
        /\ \A i \in 1..Len(result.arg[1].labels) :
            /\ result.value.items[1].items[i].value = result.arg[1].labels[i]
            /\ result.value.items[1].items[i].rowspan = 1
            /\ result.value.items[1].items[i].colspan = 1

C18_Witness ==
    /\ IndexParsed /\ ~result.arg[1].multi
    /\ result.arg[1].labels = <<StrV(<<"A">>), StrV(<<"A">>), StrV(<<"B">>)>>
    /\ Len(result.value.items[1].items) = 3

\* what C19 puts between the brackets
BodyExpected(value) ==
    IF IsNone(value) THEN <<>>
    ELSE IF value.k = "renderable" THEN value.xs
    ELSE PyStr(value)

\* C19: between its brackets Cell.render() puts value.render() when the value
\* has a render(), and the value's text conversion when it has none.
C19_ValueRenderUsed ==
    (CellRendered /\ result.err = "") =>
        IF IsPlainForm(result.text)
        THEN result.text = <<"[">> \o BodyExpected(result.arg[1].value) \o <<"]">>
        ELSE EndsWith(result.text,
                      <<")", "[">> \o BodyExpected(result.arg[1].value) \o <<"]", "]">>)

\* C20: a call on one Table (an assignment or an append to one of its grids,
\* a change of one of its cells, a new overlay, a render) leaves every other
\* Table as it was, with the same render() text: here a second Table made by
\* Table(), whose grids are the default grids.
C20_NoSharedGrids ==
    [][result'.op # "Table" =>
        /\ TableOf(defaults') = TableOf(defaults)
        /\ Render(TableOf(defaults')) = Render(TableOf(defaults))]_vars

\* the number of cells of the first data row, 0 for a table without rows
DataCols == IF DataRows = 0 THEN 0 ELSE Len(table.row_data.items[1].items)

\* C21: in every state of a Table, a columns attribute that is an integer or a
\* list equals (or has as its length) the number of data columns plus the
\* number of index levels, and a rows attribute that is an integer or a list
\* equals the number of data rows plus the number of header levels.
C21_CountsCurrent ==
    /\ table.columns.k = "int" => table.columns.n = DataCols + Len(table.index_data.items)
    /\ IsList(table.columns) => Len(table.columns.xs) = DataCols + Len(table.index_data.items)
    /\ table.rows.k = "int" => table.rows.n = DataRows + Len(table.header_data.items)
    /\ IsList(table.rows) => Len(table.rows.xs) = DataRows + Len(table.header_data.items)

\* the fields of a Table other than its overlay list
OtherFields == DOMAIN NewTable \ {"lines"}

\* what C22 says of one call: the overlay list grew at its end by one line of
\* the given orientation that carries the arguments a, and nothing else changed
LineAdded(before, after, orientation, a) ==
    /\ NLines(after) = NLines(before) + 1
    /\ SubSeq(Overlays(after), 1, NLines(before)) = Overlays(before)
    /\ Overlays(after)[NLines(after)] =
            [pos |-> a[1], orientation |-> orientation, start |-> a[2], end |-> a[3],
             stroke |-> a[4], position |-> a[5]]
    /\ \A f \in OtherFields : after[f] = before[f]

\* C22: add_hline and add_vline never raise; each appends exactly one overlay
\* (horizontal resp. vertical, with the given pos, start, end, stroke and
\* position) at the end of the overlay list and leaves the overlays added
\* before, every styling attribute and the three grids as they were.
C22_LineAppended ==
    [][\A a \in LineArgs :
        /\ (result'.op = "add_hline" /\ table' = add_hline(table, a[1], a[2], a[3], a[4], a[5])) =>
            (result'.err = "" /\ LineAdded(table, table', "horizontal", a) /\ defaults' = defaults)
        /\ (result'.op = "add_vline" /\ table' = add_vline(table, a[1], a[2], a[3], a[4], a[5])) =>
            (result'.err = "" /\ LineAdded(table, table', "vertical", a) /\ defaults' = defaults)
      ]_vars

C22_Witness ==
    /\ result.op = "add_vline" /\ result.err = ""
    /\ NLines(table) = 2 /\ DataRows > 0 /\ ~IsNone(table.columns)
    /\ table.lines.xs[1].orientation = "horizontal" /\ IsNone(table.lines.xs[1].stroke)
    /\ table.lines.xs[2] =
            [pos |-> 2, orientation |-> "vertical", start |-> IntV(0), end |-> IntV(1),
             stroke |-> EdgeDict, position |-> StrV(<<"end">>)]

\* the text C23 expects after "stroke: " for an accepted stroke value
StrokeExpected(v) ==
    IF IsNone(v) THEN <<"none">>
    ELSE IF IsStr(v) THEN v.s
    ELSE IF IsList(v) THEN Parenthesized(Texts(v.xs))
    ELSE Parenthesized(PairTexts(v.xs))

\* the text txt has the line "  stroke: <rendered>,"
HasStrokeLine(txt, rendered) ==
    LET L == SplitLines(txt)
    IN  \E k \in 1..Len(L) : L[k] = <<" ", " ", "stroke", ":", " ">> \o rendered \o <<",">>

\* C23: after every accepted assignment to table.stroke, render() emits the
\* line "stroke: <rendered value>" in the attribute block, and for the value
\* None the line "stroke: none".
C23_StrokeLine ==
    [][\A v \in StyleValues :
        (result'.op = "stroke" /\ result'.err = "" /\ nops < MaxOps
            /\ Assigned("stroke", stroke_setter(table, v)) /\ Render(table').err = "") =>
            HasStrokeLine(Render(table').text, StrokeExpected(v))]_vars

\* an import whose render raises: "*" listed together with other members
FaultyImport(imp) == Len(imp.xs) > 1 /\ \E i \in 1..Len(imp.xs) : imp.xs[i].s = <<"*">>

\* the line number of the first body element in a rendered document of n imports
BodyStart(n) == IF n > 0 THEN n + 2 ELSE 1

\* the lines L are the imports, one per line and in list order, a blank line
\* after them, then the body elements in list order with a blank line
\* between two neighbours
DocLines(L, doc) ==
    /\ Len(L) = BodyStart(Len(doc.imports))
                + (IF Len(doc.body) = 0 THEN 0 ELSE 2 * (Len(doc.body) - 1))
    /\ \A i \in 1..Len(doc.imports) : L[i] = ImportRender(doc.imports[i]).text
    /\ Len(doc.imports) > 0 => L[Len(doc.imports) + 1] = <<>>
    /\ \A j \in 1..Len(doc.body) :
        /\ L[BodyStart(Len(doc.imports)) + 2 * (j - 1)] = render(doc.body[j]).text
        /\ j < Len(doc.body) => L[BodyStart(Len(doc.imports)) + 2 * j - 1] = <<>>

\* what C24 says of add(element) and add_import(module, members): an Import
\* and an add_import go to the end of imports, another renderable or a text
\* to the end of the body, a Document raises and changes nothing
DocGrows(before, after, err, element) ==
    IF element.k = "import"
    THEN err = "" /\ after = [before EXCEPT !.imports = Append(@, element)]
    ELSE IF element.k \in {"renderable", "str"}
    THEN err = "" /\ after = [before EXCEPT !.body = Append(@, element)]
    ELSE err = "ValueError" /\ after = before

\* the body holds no Import
NoImportInBody(doc) == \A j \in 1..Len(doc.body) : doc.body[j].k # "import"

RunStarts(codes) == SetToSeq({i \in 1..Len(codes) : i = 1 \/ codes[i] # codes[i - 1]})

\* the length of the k-th run
RunLength(codes, starts, k) ==
    (IF k < Len(starts) THEN starts[k + 1] ELSE Len(codes) + 1) - starts[k]

\* the cells are one per run, in order, each with the label of its run's code
\* and the run's length as its span in the given direction
RunCells(cells, labels, codes, starts, span_arg) ==
    /\ Len(cells) = Len(starts)
    /\ \A k \in 1..Len(starts) :
        /\ cells[k].value = labels[codes[starts[k]] + 1]
        /\ cells[k][span_arg] = RunLength(codes, starts, k)
        /\ cells[k][IF span_arg = "rowspan" THEN "colspan" ELSE "rowspan"] = 1

\* C25: for every level of a multi-level index, in either direction, the
\* flattener returns one Cell per maximal run of equal neighbouring codes, in
\* order; every Cell, the last one included, carries the label of its own run
\* and the run's length as its rowspan (rows) or colspan (columns).
C25_RunLabels ==
    (IndexParsed /\ result.arg[1].multi) =>
        /\ Len(result.value.items) = Len(result.arg[1].levels)
        /\ \A l \in 1..Len(result.arg[1].levels) :
            RunCells(result.value.items[l].items, result.arg[1].levels[l],
                     result.arg[1].codes[l], RunStarts(result.arg[1].codes[l]),
                     IF result.arg[2] = "rows" THEN "rowspan" ELSE "colspan")

RECURSIVE SpanSum(_, _, _)
\* the sum of the spans (field) of the first k cells
SpanSum(cells, field, k) ==
    IF k = 0 THEN 0 ELSE SpanSum(cells, field, k - 1) + cells[k][field]

\* the cells of an index level all span at least one row and together span n
LevelCovers(cells, n) ==
    /\ \A k \in 1..Len(cells) : cells[k].rowspan >= 1
    /\ SpanSum(cells, "rowspan", Len(cells)) = n

\* the cells of a level whose first covered row is row i
LevelCellsOn(cells, i) ==
    LET at == SelectSeq([k \in 1..Len(cells) |-> k],
                        LAMBDA k : 1 + SpanSum(cells, "rowspan", k - 1) = i)
    IN  [j \in 1..Len(at) |-> cells[at[j]]]

RECURSIVE IndexCellsOn(_, _, _)
\* the index cells that start on row i, from level l on, outer level first
IndexCellsOn(grid, i, l) ==
    IF l > Len(grid.items) THEN <<>>
    ELSE LevelCellsOn(grid.items[l].items, i) \o IndexCellsOn(grid, i, l + 1)

\* C26: when the rowspans of every index level sum to the number of data
\* rows, every index Cell is emitted exactly once, on the first data row it
\* covers, and on no other row; each row line holds the index cells that start
\* on it, outer level first, then the row's value cells, all joined by ", ".
C26_IndexCellsOnce ==
    (RenderedOk /\ DataRows > 0
        /\ \A l \in 1..Len(table.index_data.items) :
                LevelCovers(table.index_data.items[l].items, DataRows)) =>
        \A i \in 1..DataRows :
            RowLine(i) = <<" ", " ">>
                \o JoinCells(IndexCellsOn(table.index_data, i, 1) \o table.row_data.items[i].items,
                             <<",", " ">>).text
                \o (IF i < DataRows THEN <<",">> ELSE <<>>)

RECURSIVE CellsText(_, _)
\* the renders of the cells from the k-th on, one after the other
CellsText(cells, k) ==
    IF k > Len(cells) THEN <<>> ELSE CellRender(cells[k]).text \o CellsText(cells, k + 1)

RECURSIVE LevelsText(_, _)
\* the same for the levels of a grid from the l-th on: level-major,
\* position-minor
LevelsText(grid, l) ==
    IF l > Len(grid.items) THEN <<>>
    ELSE CellsText(grid.items[l].items, 1) \o LevelsText(grid, l + 1)

\* the render of an empty Cell with the given spans
CornerText(rowspan, colspan) == CellRender(Cell(None, rowspan, colspan, None, None, None)).text

C28_RejectedLeavesTable ==
    [][(result'.op \in Attrs /\ result'.err # "") =>
        /\ \A f \in DOMAIN NewTable : table'[f] = table[f]
        /\ defaults' = defaults
        /\ nops' = nops
        /\ Render(table') = Render(table)]_vars

C28_Witness ==
    /\ result.op = "gutter" /\ result.err = "ValueError"
    /\ table.gutter = StrList(2) /\ DataRows > 0 /\ ~IsNone(table.columns)

\* no styling attribute of the table is set
NoAttrSet(self) == \A a \in Attrs : IsNone(self[a])

\* the line holds a "," and nothing else but its indentation
OnlyComma(line) ==
    /\ Len(line) > 0 /\ line[Len(line)] = ","
    /\ \A i \in 1..(Len(line) - 1) : line[i] = " "

\* C29: for a table on which no styling attribute is set the attribute block
\* adds nothing to the text of render(): the line after "#table(" is the
\* first overlay line or the table.header line, and no line holds only a ",".
C29_NoAttrNoText ==
    (RenderedOk /\ NoAttrSet(table)) =>
        /\ \/ StartsWith(OutLines[2], <<" ", " ", "table.header">>)
           \/ StartsWith(OutLines[2], <<" ", " ", "table.hline(">>)
           \/ StartsWith(OutLines[2], <<" ", " ", "table.vline(">>)
        /\ \A k \in 1..Len(OutLines) : ~OnlyComma(OutLines[k])

\* index_positions when the loop of _render_rows ends
FinalPositions(self) ==
    RowsFrom(self,
        [err |-> "", text |-> <<>>,
         rows_to_skip |-> [l \in 1..Len(self.index_data.items) |-> 0],
         index_positions |-> [l \in 1..Len(self.index_data.items) |-> 0]], 1).index_positions

\* what C30 says of a table that from_dataframe returned
SpansFit(self) ==
    /\ \A l \in 1..Len(self.index_data.items) :
        /\ SpanSum(self.index_data.items[l].items, "rowspan", Len(self.index_data.items[l].items))
                = Len(self.row_data.items)
        /\ FinalPositions(self)[l] = Len(self.index_data.items[l].items)
    /\ \A l \in 1..Len(self.header_data.items) :
        SpanSum(self.header_data.items[l].items, "colspan", Len(self.header_data.items[l].items))
            = Len(self.row_data.items[1].items)
    /\ Render(self).err = ""

\* C30: in every table that from_dataframe returns for a frame with a
\* non-empty index, the rowspans of each index level sum to the number of data
\* rows and the colspans of each header level to the number of data columns;
\* the body loop of render() then uses up every index Cell of every level and
\* reads none past the end of a level.
C30_SpansFit ==
    [][(result'.op = "from_dataframe" /\ result'.err = "" /\ Len(table'.row_data.items) > 0)
        => SpansFit(table')]_vars

C30_Witness ==
    /\ result.op = "from_dataframe" /\ result.err = ""
    /\ DataRows = 2 /\ DataCols = 1
    /\ Len(table.index_data.items) = 2 /\ Len(table.header_data.items) = 2
    /\ Len(table.index_data.items[1].items) = 1
    /\ table.index_data.items[1].items[1].rowspan = 2
    /\ FinalPositions(table) = <<1, 2>>

====
